---- MODULE Spec2Model ----
(***************************************************************************)
(* COMPASS hook handler (src/claude/handlers/compass-handler.py).          *)
(*                                                                         *)
(* Every hook event is one short-lived process: main() reads one event,    *)
(* runs the handler for it, then the stale-session cleanup, the agent      *)
(* activity check and the final log line.  All state that survives a       *)
(* process lives in files under .claude/logs (marker, session record,      *)
(* handler log, token ledger) and in docs/.  One action of Spec is one     *)
(* whole run of main(); Tick lets wall-clock time pass between runs.       *)
(*                                                                         *)
(* SpecTool arranges the files by any such history and then decides one    *)
(* PreToolUse event of any shape, through main() or by handle_pre_tool_use *)
(* alone.  SpecPath checks the pure path-safety functions on enumerated    *)
(* paths.                                                                  *)
(***************************************************************************)
EXTENDS Integers, Sequences, FiniteSets, TLC

\* ------------------------------------------------------------------ bounds
MaxTime == 1200         \* the clock stops advancing here (seconds)
TickSeconds == 600      \* seconds that pass in one Tick
MaxDepthIn == 4         \* largest COMPASS_VALIDATION_DEPTH a process inherits
MaxPathLen == 3
MaxTotal == 2           \* largest total and per-agent count of an initial ledger
MaxTokens == 2          \* largest token count recorded in one call
MaxLogCalls == 2        \* log calls in a row
MaxCleanFiles == 3      \* files in the directory safe-cleanup.py scans
MaxProcs == 3           \* hook processes running at the same time         \* components of an enumerated path (SpecPath)

\* ------------------------------------------------------- program constants
SESSION_TIMEOUT == 600  \* every recency threshold of the oracle, seconds
LOG_TAIL == 20          \* lines of the handler log the oracle reads
MAX_VALIDATION_DEPTH == 3
MAX_TOKEN_SESSIONS == 25
MAX_AGENT_TRACKING == 50

NoTs == -1              \* a timestamp field that is missing or empty
BadTs == -2             \* a timestamp string datetime.fromisoformat rejects

VARIABLES
    now,        \* wall clock, seconds
    status,     \* .claude/logs/compass-status exists
    sess,       \* .claude/logs/compass-session.json
    logTs,      \* timestamp of the newest compass-action line among the last
                \* LOG_TAIL lines of compass-handler.log (NoTs: none)
    logN,       \* number of log lines written after that line
    mapIndex,   \* maps/map-index.json exists
    docsM,      \* newest mtime of docs/*.md (NoTs: no such file)
    tok,        \* .claude/logs/compass-tokens.json
    last,       \* the event main() processed last and what it answered
    probe,      \* SpecPath: the path under test and the functions' answers
    call,       \* SpecCalls: the function called last and what it returned
    conc        \* SpecLock: concurrent hook processes and the lock files

vars ==
    <<now, status, sess, logTs, logN, mapIndex, docsM, tok, last, probe, call,
      conc>>

Min(a, b) == IF a < b THEN a ELSE b

\* ------------------------------------------------------------- file contents
NoSession == [kind |-> "absent", start |-> NoTs, last |-> NoTs]
GarbageSession == [kind |-> "garbage", start |-> NoTs, last |-> NoTs]
ArraySession == [kind |-> "array", start |-> NoTs, last |-> NoTs]

\* shape: "object", "garbage" (not JSON) or "array" (JSON, not an object)
NoLedger ==
    [exists |-> FALSE, shape |-> "object", lastUpdate |-> NoTs,
     compassKey |-> FALSE]

\* The files one process sees, with its own environment variable
\* COMPASS_VALIDATION_DEPTH (depth) and what it did (validated, peak, exit).
Files(d) ==
    [status |-> status, sess |-> sess, logTs |-> logTs, logN |-> logN,
     mapIndex |-> mapIndex, docsM |-> docsM, tok |-> tok,
     depth |-> d, validated |-> FALSE, peak |-> d, exit |-> 0]

\* ------------------------------------------------------------------ logger
CompassActions ==
    {"compass_required", "agent_active", "token_tracking", "prompt_routing",
     "phase_update", "compass_complete"}

\* log_handler_activity: one line appended.  A compass-action line becomes the
\* newest one; any other line pushes the newest one towards the edge of the
\* LOG_TAIL window, and out of it at LOG_TAIL lines.
Log(s, action) ==
    IF action \in CompassActions
    THEN [s EXCEPT !.logTs = now, !.logN = 0]
    ELSE IF s.logTs = NoTs THEN s
    ELSE IF s.logN + 1 >= LOG_TAIL THEN [s EXCEPT !.logTs = NoTs, !.logN = 0]
    ELSE [s EXCEPT !.logN = @ + 1]

\* --------------------------------------------------------------- the oracle
\* is_recent_timestamp_extended / is_session_timestamp_valid, without the log
\* line the except branch writes for an unparseable string.
TsWithin(ts) == ts >= 0 /\ now - ts < SESSION_TIMEOUT

\* is_session_timestamp_valid(ts, 600) as a step: an unparseable string is
\* logged as security_exception and is not valid.
TimestampChecked(s, ts) ==
    IF ts = BadTs THEN Log(s, "security_exception") ELSE s

\* check_compass_session_active once session_start proved recent: the
\* last_activity test
LastActivityChecked(s) ==
    IF TsWithin(s.sess.last) THEN [s |-> s, r |-> TRUE]
    ELSE [s |-> Log(TimestampChecked(s, s.sess.last), "session_validation"),
          r |-> FALSE]

\* A session check that takes every session for active
SessionAssumedActive(s) == [s |-> s, r |-> TRUE]

\* check_compass_session_active: r is its return value
CheckSessionActive(s) ==
    CASE s.sess.kind = "absent" -> [s |-> s, r |-> FALSE]
      [] s.sess.kind \in {"garbage", "array"} ->
            [s |-> Log(s, "session_validation_error"), r |-> FALSE]
      [] OTHER ->
            IF s.sess.start = NoTs \/ s.sess.last = NoTs
            THEN [s |-> Log(s, "session_validation_error"), r |-> FALSE]
            ELSE IF TsWithin(s.sess.start) THEN LastActivityChecked(s)
            ELSE [s |-> Log(TimestampChecked(s, s.sess.start),
                            "session_validation"),
                  r |-> FALSE]

\* The recent-log-tail signal of compass_context_active
LogTailRecent(s) == s.logTs # NoTs /\ s.logN < LOG_TAIL /\ TsWithin(s.logTs)

\* The docs signal: a docs/*.md file modified within the last 10 minutes
DocsRecent(s) == s.docsM # NoTs /\ s.docsM > now - SESSION_TIMEOUT

\* check_recent_compass_tokens
CheckRecentCompassTokens(s) ==
    /\ s.tok.exists
    /\ s.tok.shape = "object"
    /\ (TsWithin(s.tok.lastUpdate) \/ s.tok.compassKey)

\* check_recent_compass_tokens as a step: token_data.get on a ledger that is
\* JSON but not an object raises AttributeError, which the except clause
\* (JSONDecodeError, FileNotFoundError) lets through; an unparseable
\* last_update is logged by is_recent_timestamp_extended.
LedgerSignal(s) ==
    IF s.tok.exists /\ s.tok.shape = "array"
    THEN [s |-> [s EXCEPT !.exit = 1], r |-> FALSE]
    ELSE [s |-> IF s.tok.exists /\ s.tok.shape = "object"
                   /\ s.tok.lastUpdate < 0
                THEN Log(s, "security_exception") ELSE s,
          r |-> CheckRecentCompassTokens(s)]

\* compass_context_active after the session record was checked (c): the log
\* tail as it is by then, docs, the ledger
SecondarySignals(c) ==
    IF c.r THEN c
    ELSE IF LogTailRecent(c.s) \/ DocsRecent(c.s) THEN [s |-> c.s, r |-> TRUE]
    ELSE LedgerSignal(c.s)

\* compass_context_active: the marker, then the session record (whose check
\* may log), then the other signals
ContextActive(s) ==
    IF s.status THEN [s |-> s, r |-> TRUE]
    ELSE SecondarySignals(CheckSessionActive(s))

\* ------------------------------------------------------------- path safety
ProjectRoot == <<"proj">>       \* absolute project root, /proj
RootPrefixed == {"proj", "proj2"}   \* first components whose text starts with "proj"

MdNames == {"README.md", "notes.md", "test-plan.md"}
\* names containing one of the keywords test, jung, integration
TestKeywordNames == {"test-plan.md"}

\* pathlib.Path(text): "." components vanish, ".." stays as it is
RECURSIVE DropDots(_)
DropDots(parts) ==
    IF parts = <<>> THEN <<>>
    ELSE IF Head(parts) = "." THEN DropDots(Tail(parts))
    ELSE <<Head(parts)>> \o DropDots(Tail(parts))

IsPrefix(a, b) == Len(a) <= Len(b) /\ SubSeq(b, 1, Len(a)) = a

\* CompassFileOrganizer.validate_path_safety: TRUE is safe.  p is
\* [abs |-> BOOLEAN, parts |-> sequence of components as written].
validate_path_safety(p) ==
    LET parts == DropDots(p.parts)
        \* str(path).startswith(str(self.project_root)) compares text
        textInProject == parts # <<>> /\ parts[1] \in RootPrefixed
    IN  IF p.abs /\ ~textInProject THEN TRUE
        ELSE LET full == IF p.abs THEN parts ELSE ProjectRoot \o parts IN
             IF IsPrefix(ProjectRoot, full)
             THEN Len(full) - Len(ProjectRoot) > 1
             ELSE TRUE       \* relative_to raised ValueError

FileCreatingTools == {"Write", "mcp__serena__create_text_file", "Edit", "MultiEdit"}

\* Path(file_path).name
BaseName(p) == LET parts == DropDots(p.parts) IN
               IF parts = <<>> THEN "" ELSE parts[Len(parts)]

\* file_path.endswith(".md"), on the text as written
EndsWithMd(p) == p.parts # <<>> /\ p.parts[Len(p.parts)] \in MdNames

\* any keyword of test, jung, integration in file_path.lower()
PathHasTestKeyword(p) == \E i \in 1..Len(p.parts) : p.parts[i] \in TestKeywordNames

NoPath == [abs |-> FALSE, parts |-> <<>>]

\* validate_file_operation_safety(tool_name, tool_input), for a tool_input
\* that is an object: path is its file_path / relative_path (NoPath: none),
\* contentKw says its content holds "validation" or "test".
validate_file_operation_safety(tool, path, contentKw) ==
    IF tool \notin FileCreatingTools
    THEN [safe |-> TRUE, reason |-> "not_file_tool", suggested |-> <<>>]
    ELSE IF path.parts = <<>>
    THEN [safe |-> TRUE, reason |-> "no_file_path", suggested |-> <<>>]
    ELSE IF ~validate_path_safety(path) /\ EndsWithMd(path)
    THEN [safe |-> FALSE, reason |-> "root_violation",
          suggested |->
             IF PathHasTestKeyword(path)
                THEN <<".claude", "tests", BaseName(path)>>
             ELSE IF contentKw
                THEN <<".serena", "memories", "validations", BaseName(path)>>
             ELSE <<".serena", "memories", BaseName(path)>>]
    ELSE [safe |-> TRUE, reason |-> "path_ok", suggested |-> <<>>]

\* ---------------------------------------------------- marking a session active
\* A session record that always starts now
RestartedSession(old) == [kind |-> "dict", start |-> now, last |-> now]

\* create_compass_session_tracking: the record it writes
TrackedSession(old) ==
    [kind |-> "dict",
     start |-> IF old.kind = "dict" /\ old.start # NoTs THEN old.start ELSE now,
     last |-> now]

\* create_compass_session_tracking
CreateSessionTracking(s) ==
    Log([(CASE s.sess.kind = "garbage" -> Log(s, "session_read_error")
            [] s.sess.kind = "array" -> Log(s, "session_corruption")
            [] OTHER -> s)
         EXCEPT !.sess = TrackedSession(s.sess)],
        "session_tracking")

\* A status-file step that logs and writes no marker
StatusFileNotWritten(s) ==
    Log(Log(s, "atomic_file_operation"), "status_file")

\* create_compass_status_file_with_tokens
CreateStatusFile(s) ==
    Log(Log([s EXCEPT !.status = TRUE], "atomic_file_operation"), "status_file")

\* inject_compass_context: the state it leaves; its return value is always
\* the coordination-context text.
InjectCompassContext(s) == CreateSessionTracking(CreateStatusFile(s))

NoResult == [kind |-> "none", decision |-> "-", reason |-> "-",
             suggested |-> <<>>, ctx |-> FALSE]
ContextResult == [kind |-> "context", decision |-> "-", reason |-> "-",
                  suggested |-> <<>>, ctx |-> TRUE]

\* create_permission_decision_with_compass_context(decision, reason)
Decide(s, decision, reason, suggested) ==
    [s |-> InjectCompassContext(s),
     res |-> [kind |-> "decision", decision |-> decision, reason |-> reason,
              suggested |-> suggested, ctx |-> TRUE]]

\* get_compass_session_context: it asks the oracle and reads the session
\* record (an array there ends in the context_error log line).
SessionRecordRead(s) ==
    IF s.sess.kind = "array" THEN Log(s, "context_error") ELSE s

SessionContext(s) == SessionRecordRead(ContextActive(s).s)

\* ------------------------------------------------------------ policy engine
\* An event: name is hook_event_name; prompt says the prompt is non-empty;
\* tool, path, contentKw, sub (subagent_type), mention (tool_input.prompt
\* names a compass agent other than compass-coder) and dc (double_check)
\* describe tool_name and tool_input.
\* obj says tool_input is a JSON object; a string or an array has none of the
\* other fields and raises AttributeError at the first tool_input.get.
NoTool == [tool |-> "", obj |-> TRUE, path |-> NoPath, contentKw |-> FALSE,
           sub |-> "", mention |-> FALSE, dc |-> FALSE]

\* An exception leaves the handler: nothing is returned, main() will exit 1
Raised(s) == [s |-> [s EXCEPT !.exit = 1], res |-> NoResult]

\* requires_compass_methodology
requires_compass_methodology(tool) == TRUE

\* trigger_upstream_validation: two log lines; for a tool_input that came
\* from JSON it always reports valid.
TriggerUpstreamValidation(s) ==
    Log(Log([s EXCEPT !.validated = TRUE, !.peak = s.depth],
            "upstream_validation_triggered"),
        "upstream_validation_prepared")

\* A double_check branch without the finally clause: the counter stays raised
DoubleCheckUnrestored(s) ==
    TriggerUpstreamValidation(
        [Log(s, "upstream_validation") EXCEPT !.depth = s.depth + 1])

\* The double_check branch of compass_handler_core: the counter is raised
\* around the delegated validation and restored in the finally clause.
DoubleCheck(s) ==
    [TriggerUpstreamValidation(
         [Log(s, "upstream_validation") EXCEPT !.depth = s.depth + 1])
     EXCEPT !.depth = s.depth]

\* compass_handler_core, STEP 3 on: c is the oracle's answer
CoordinationRule(c, e) ==
    IF ~c.r
    THEN \* return inject_compass_context(): no permission decision
         [s |-> InjectCompassContext(Log(c.s, "compass_injection")),
          res |-> ContextResult]
    ELSE IF requires_compass_methodology(e.tool)
    THEN Decide(SessionContext(Log(c.s, "compass_required")),
                "deny", "compass_required", <<>>)
    ELSE Decide(Log(c.s, "tool_allowed"), "allow", "validation_passed", <<>>)

\* compass_handler_core: recursion prevention, depth limit, double_check
RecursionRule(s, e) ==
    IF ~e.obj
    THEN \* tool_input.get raises: in the validator test for Task, in the
         \* depth-limit message at depth 3, else at double_check
         Raised(IF e.tool # "Task" /\ s.depth >= MAX_VALIDATION_DEPTH
                THEN Log(s, "depth_limit") ELSE s)
    ELSE IF e.tool = "Task" /\ e.sub = "compass-upstream-validator"
    THEN Decide(SessionContext(Log(s, "recursion_prevention")),
                "allow", "upstream_validator", <<>>)
    ELSE IF s.depth >= MAX_VALIDATION_DEPTH
    THEN Decide(SessionContext(Log(s, "depth_limit")),
                "allow", "depth_limit", <<>>)
    ELSE CoordinationRule(ContextActive(IF e.dc THEN DoubleCheck(s) ELSE s), e)

\* compass_handler_core: the file-organization rule, fs the answer of
\* validate_file_operation_safety
PathRule(s, e, fs) ==
    IF ~fs.safe
    THEN Decide(Log(IF fs.reason = "validation_failed"
                    THEN Log(s, "file_validation_error") ELSE s,
                    "file_path_violation"),
                "deny", fs.reason, fs.suggested)
    ELSE RecursionRule(s, e)

\* validate_file_operation_safety(tool_name, tool_input) for any tool_input:
\* the AttributeError of a non-object is caught and reported as unsafe
FileSafety(e) ==
    IF e.tool \in FileCreatingTools /\ ~e.obj
    THEN [safe |-> FALSE, reason |-> "validation_failed", suggested |-> <<>>]
    ELSE validate_file_operation_safety(e.tool, e.path, e.contentKw)

\* compass_handler_core(input_data, "PreToolUse")
HandlerCore(s, e) ==
    IF e.tool = "" THEN Decide(s, "deny", "no_tool_name", <<>>)
    ELSE PathRule(Log(s, "tool_intercept"), e, FileSafety(e))

\* subagents let through by handle_pre_tool_use_with_token_tracking
PassedSubagents ==
    {"compass-knowledge-discovery", "compass-enhanced-analysis",
     "compass-cross-reference", "compass-data-flow", "compass-dependency-tracker"}

ReadOnlyTools == {"Read", "LS", "Grep", "Glob", "Bash"}

\* The active-session block of handle_pre_tool_use_with_token_tracking:
\* either a deny (out) or the state to go on with.
ActiveSessionGate(s, e) ==
    IF e.tool = "Task"
    THEN IF ~e.obj
         THEN [blocked |-> TRUE, out |-> Raised(s)]
         ELSE IF e.sub = "compass-captain"
         THEN [blocked |-> TRUE,
               out |-> Decide(SessionContext(
                                 Log(s, "compass_captain_recursion_check")),
                              "deny", "captain_recursion", <<>>)]
         ELSE IF e.sub \in PassedSubagents
         THEN [blocked |-> FALSE, out |-> [s |-> s, res |-> NoResult]]
         ELSE [blocked |-> TRUE,
               out |-> Decide(SessionContext(s), "deny", "task_blocked", <<>>)]
    ELSE IF e.tool = "TodoWrite"
    THEN [blocked |-> FALSE, out |-> [s |-> s, res |-> NoResult]]
    ELSE IF e.tool \in ReadOnlyTools
    THEN [blocked |-> FALSE,
          out |-> [s |-> Log(s, "compass_tool_bypass"), res |-> NoResult]]
    ELSE [blocked |-> TRUE,
          out |-> Decide(SessionContext(s), "deny", "tool_blocked", <<>>)]

\* update_session_token_count for a compass agent, on a well-formed ledger
\* under its size cap
UpdateSessionTokenCount(s) ==
    [s EXCEPT !.tok = [exists |-> TRUE, shape |-> "object", lastUpdate |-> now,
                       compassKey |-> TRUE]]

\* The token-tracking block of handle_pre_tool_use_with_token_tracking
TokenTracking(s, e) ==
    IF e.tool = "Task" /\ ~e.obj THEN [s EXCEPT !.exit = 1]
    ELSE IF e.tool = "Task" /\ e.mention
    THEN Log(UpdateSessionTokenCount(s), "token_tracking")
    ELSE s

\* handle_pre_tool_use_with_token_tracking after its active-session block
TrackedThenCore(s, e) ==
    IF s.exit # 0 THEN [s |-> s, res |-> NoResult] ELSE HandlerCore(s, e)

AfterGate(gate, e) ==
    IF gate.blocked THEN gate.out
    ELSE TrackedThenCore(TokenTracking(gate.out.s, e), e)

\* handle_pre_tool_use_with_token_tracking from its second oracle call (c)
GateRule(c, e) ==
    IF c.s.exit # 0 THEN [s |-> c.s, res |-> NoResult] ELSE
    AfterGate(IF c.r THEN ActiveSessionGate(c.s, e)
              ELSE [blocked |-> FALSE, out |-> [s |-> c.s, res |-> NoResult]],
              e)

\* handle_pre_tool_use_with_token_tracking from its first oracle call (c)
RoutingRule(c, e) ==
    IF c.s.exit # 0 THEN [s |-> c.s, res |-> NoResult]
    ELSE IF ~c.r
    THEN Decide(Log(c.s, "compass_injection"), "deny", "routing", <<>>)
    ELSE GateRule(ContextActive(c.s), e)

\* handle_pre_tool_use_with_token_tracking
PreToolUseWithTokenTracking(s, e) == RoutingRule(ContextActive(s), e)

\* A prompt handler that annotates only while no session is active
QuietVerdict(c, e) ==
    IF ~e.prompt \/ c.r THEN [s |-> c.s, res |-> NoResult]
    ELSE [s |-> InjectCompassContext(Log(c.s, "prompt_routing")),
          res |-> ContextResult]

QuietWhileActive(s, e) == QuietVerdict(ContextActive(s), e)

\* compass_handler_core(input_data, "UserPromptSubmit")
HandleUserPromptSubmit(s, e) ==
    IF ~e.prompt THEN [s |-> s, res |-> NoResult]
    ELSE [s |-> InjectCompassContext(Log(s, "prompt_routing")),
          res |-> ContextResult]

\* handle_post_tool_use_automatic_validation for a tool whose files need no
\* syntax check (.md, .txt): it only logs
FileModifyingTools == FileCreatingTools \cup {"NotebookEdit"}

HandlePostToolUse(s, e) ==
    IF e.tool \notin FileModifyingTools
    THEN Log(Log(s, "post_tool_validation"), "validation_skip")
    ELSE Log(s, "post_tool_validation")

\* ----------------------------------------------------------------- cleanup
\* cleanup_compass_status (Stop, SessionEnd): the marker only
CleanupCompassStatus(s) ==
    Log([s EXCEPT !.status = FALSE], "compass_status_cleanup")

\* A stale cleanup that removes the session record and leaves the marker
RemoveSessionOnly(c) ==
    IF ~c.r
    THEN [s |-> Log([c.s EXCEPT !.sess = NoSession], "stale_session_cleanup"),
          r |-> TRUE]
    ELSE [s |-> c.s, r |-> FALSE]

\* cleanup_compass_status_if_stale once the marker was found: c is the
\* answer of check_compass_session_active
RemoveIfStale(c) ==
    IF ~c.r
    THEN [s |-> Log([c.s EXCEPT !.status = FALSE, !.sess = NoSession],
                    "stale_session_cleanup"),
          r |-> TRUE]
    ELSE [s |-> c.s, r |-> FALSE]

\* cleanup_compass_status_if_stale: r is its return value
CleanupIfStale(s) ==
    IF ~s.status THEN [s |-> s, r |-> FALSE]
    ELSE RemoveIfStale(CheckSessionActive(s))

\* agent_phase_map of check_compass_agent_activity, and phase_map of
\* update_compass_phase, for the subagents the model sends
AgentPhase(sub) ==
    CASE sub = "compass-captain" -> "coordination"
      [] sub = "compass-knowledge-discovery" -> "knowledge-query"
      [] sub = "compass-upstream-validator" -> "upstream-validation"
      [] OTHER -> "-"

StatusPhases ==
    {"knowledge-query", "pattern-apply", "gap-analysis", "doc-planning",
     "enhanced-analysis", "cross-reference"}

\* update_compass_session_activity; a record that parses to an array makes
\* the item assignment raise, which nothing below main() catches
UpdateSessionActivity(s) ==
    CASE s.sess.kind = "absent" -> s
      [] s.sess.kind = "garbage" -> CreateSessionTracking(s)
      [] s.sess.kind = "array" -> [s EXCEPT !.exit = 1]
      [] OTHER -> [s EXCEPT !.sess.last = now]

\* check_compass_agent_activity after update_compass_session_activity
AgentStatusUpdate(s, e) ==
    IF s.exit # 0 \/ AgentPhase(e.sub) = "coordination" THEN s
    ELSE Log(Log(IF AgentPhase(e.sub) \in StatusPhases
                 THEN Log(s, "phase_update") ELSE s,
                 "agent_active"),
             "todo_update_generated")

\* check_compass_agent_activity
CheckAgentActivity(s, e) ==
    IF ~s.status \/ e.tool # "Task" THEN s
    ELSE IF ~e.obj THEN [s EXCEPT !.exit = 1]
    ELSE IF AgentPhase(e.sub) = "-" THEN s
    ELSE AgentStatusUpdate(UpdateSessionActivity(s), e)

\* -------------------------------------------------------------------- main
ValidEvents ==
    {"UserPromptSubmit", "PreToolUse", "PostToolUse", "Stop", "SessionEnd",
     "SubagentStop"}

\* ensure_compass_directories
EnsureDirectories(s) ==
    IF s.mapIndex THEN s
    ELSE Log([s EXCEPT !.mapIndex = TRUE], "map_index_created")

\* main: the dispatch on hook_event_name; res is what main prints
Dispatch(s, e) ==
    CASE e.name = "UserPromptSubmit" -> HandleUserPromptSubmit(s, e)
      [] e.name = "PreToolUse" -> PreToolUseWithTokenTracking(s, e)
      [] e.name = "PostToolUse" ->
            [s |-> HandlePostToolUse(s, e), res |-> NoResult]
      [] e.name = "SubagentStop" ->
            [s |-> Log(s, "SubagentStop"), res |-> NoResult]
      [] e.name \in {"Stop", "SessionEnd"} ->
            [s |-> Log(CleanupCompassStatus(s), e.name), res |-> NoResult]
      [] OTHER ->
            [s |-> Log(s, "unknown_hook"), res |-> NoResult]

\* main: the final log line, or the error line of the except clause
Processed(s, e) ==
    IF s.exit # 0 THEN Log(s, "error") ELSE Log(s, e.name)

\* main after the stale-session cleanup (c): agent activity, final log line
AfterCleanup(c, h, e) ==
    [s |-> Processed(CheckAgentActivity(c.s, e), e),
     res |-> h.res, cleaned |-> c.r, pre |-> h.s]

\* main after the handler returned h, or raised (the except clause logs the
\* error and exits with code 1)
AfterHandler(h, e) ==
    IF h.s.exit # 0
    THEN [s |-> Log(h.s, "error"), res |-> NoResult, cleaned |-> FALSE,
          pre |-> h.s]
    ELSE AfterCleanup(CleanupIfStale(h.s), h, e)

\* main() on an event that parsed to an object: s the state it leaves, res
\* what it printed, cleaned what cleanup_compass_status_if_stale returned and
\* pre the state in which that cleanup was called
Main(s, e) == AfterHandler(Dispatch(EnsureDirectories(s), e), e)

\* ------------------------------------------------------------------ inputs
RootMd == [abs |-> FALSE, parts |-> <<"README.md">>]
RootTxt == [abs |-> FALSE, parts |-> <<"notes.txt">>]
DocsMd == [abs |-> FALSE, parts |-> <<"docs", "notes.md">>]

Subagents ==
    {"compass-captain", "compass-upstream-validator",
     "compass-knowledge-discovery", "general-purpose"}

\* tool_name and tool_input of the tool events the model sends
ToolInputs ==
    {[NoTool EXCEPT !.tool = t, !.path = p, !.dc = d] :
        t \in {"Write"}, p \in {RootMd, RootTxt, DocsMd}, d \in BOOLEAN}
    \cup
    {[NoTool EXCEPT !.tool = "Task", !.sub = a, !.mention = m, !.dc = d] :
        a \in Subagents, m \in BOOLEAN, d \in BOOLEAN}
    \cup
    {[NoTool EXCEPT !.tool = t, !.dc = d] :
        t \in {"", "Read", "TodoWrite", "WebSearch"}, d \in BOOLEAN}
    \cup
    {[NoTool EXCEPT !.tool = t, !.obj = FALSE] :
        t \in {"Read", "Write", "Task", "TodoWrite"}}

Event(name, prompt, ti) ==
    [name |-> name, prompt |-> prompt, tool |-> ti.tool, obj |-> ti.obj,
     path |-> ti.path, contentKw |-> ti.contentKw, sub |-> ti.sub, mention |-> ti.mention,
     dc |-> ti.dc]

NoLast ==
    [name |-> "-", via |-> "-", prompt |-> FALSE, tool |-> "", obj |-> TRUE,
     path |-> NoPath, sub |-> "",
     mention |-> FALSE, dc |-> FALSE, depthIn |-> 0, active |-> FALSE,
     kind |-> "none", decision |-> "-", reason |-> "-", suggested |-> <<>>,
     ctx |-> FALSE, depthOut |-> 0, peak |-> 0, validated |-> FALSE,
     exit |-> 0, cleaned |-> FALSE, hadMarker |-> FALSE,
     liveAtCleanup |-> FALSE, idle |-> 0,
     inShape |-> "object", inOver |-> FALSE, kept |-> TRUE]

NoProbe ==
    [phase |-> "idle", tool |-> "", path |-> NoPath, contentKw |-> FALSE,
     pathSafe |-> TRUE, safe |-> TRUE, reason |-> "-", suggested |-> <<>>]

\* A project directory in which the handler never ran: no marker, session
\* record, log, ledger or docs file
FreshFiles ==
    [status |-> FALSE, sess |-> NoSession, logTs |-> NoTs, logN |-> 0,
     mapIndex |-> FALSE, docsM |-> NoTs, tok |-> NoLedger,
     depth |-> 0, validated |-> FALSE, peak |-> 0, exit |-> 0]

\* No function was called yet.  fn is the function called last and prev the
\* one called before it, before are the files it found, ret its return value,
\* raised whether it ended in an exception, activeAfter the answer of
\* compass_context_active() on the files it left.
NoCall ==
    [fn |-> "-", prev |-> "-", before |-> FreshFiles, ret |-> FALSE,
     raised |-> FALSE, activeAfter |-> FALSE]

\* No hook process is running.  For each process: pc is its position, loaded
\* the ledger data it read, holds the inode of compass-tokens.json.lock it has
\* locked (0: none).  lockFile is the inode compass-tokens.json.lock names
\* now (0: no such file), inodes the number of lock files created so far,
\* statusHolder the process holding compass-status.lock (0: none), recorded the
\* number of counts written to the ledger.
NoConc ==
    [pc |-> <<>>, loaded |-> <<>>, holds |-> <<>>, lockFile |-> 0, inodes |-> 0,
     statusHolder |-> 0, recorded |-> 0]

\* ------------------------------------------------------------------ actions
\* The files as process state s leaves them.
Leave(s) ==
    /\ status' = s.status
    /\ sess' = s.sess
    /\ logTs' = s.logTs
    /\ logN' = s.logN
    /\ mapIndex' = s.mapIndex
    /\ docsM' = s.docsM
    /\ tok' = s.tok

\* Seconds without any event or write, as the last record counts them
IdleSoFar == IF last.name = "-" THEN last.idle ELSE 0

\* The signals of the oracle other than the marker and the session record
OtherSignals(s) ==
    LogTailRecent(s) \/ DocsRecent(s) \/ CheckRecentCompassTokens(s)

\* What is recorded of a call: event e at inherited validation depth d,
\* entered through via, in the files before, with outcome
\* m = [s, res, cleaned, pre].  active is the oracle's answer on arrival,
\* hadMarker and liveAtCleanup describe the state in which the stale-session
\* cleanup ran, idle is the time without any event or write before the call.
Observed(e, d, via, before, m) ==
    [name |-> e.name, via |-> via, prompt |-> e.prompt, tool |-> e.tool,
     obj |-> e.obj, path |-> e.path, sub |-> e.sub, mention |-> e.mention,
     dc |-> e.dc, depthIn |-> d, active |-> ContextActive(before).r,
     kind |-> m.res.kind, decision |-> m.res.decision,
     reason |-> m.res.reason, suggested |-> m.res.suggested,
     ctx |-> m.res.ctx, depthOut |-> m.s.depth,
     peak |-> m.s.peak, validated |-> m.s.validated,
     exit |-> m.s.exit, cleaned |-> m.cleaned, hadMarker |-> m.pre.status,
     liveAtCleanup |-> OtherSignals(m.pre), idle |-> IdleSoFar,
     inShape |-> "object", inOver |-> FALSE,
     kept |-> (/\ m.s.status = before.status /\ m.s.sess = before.sess
               /\ m.s.tok = before.tok)]

\* A call has returned m: the files it leaves and the record of it.
Finished(m, e, d, via) ==
    /\ Leave(m.s)
    /\ last' = Observed(e, d, via, Files(d), m)
    /\ UNCHANGED <<now, probe, call, conc>>

\* One run of main() on event e, in a process that inherits validation
\* depth d.
Run(e, d) == Finished(Main(Files(d), e), e, d, "main")

UserPromptSubmit ==
    \E p \in BOOLEAN : Run(Event("UserPromptSubmit", p, NoTool), 0)

\* the tool events of the session life cycle
SessionTools ==
    {[NoTool EXCEPT !.tool = "Read"],
     [NoTool EXCEPT !.tool = "Write", !.path = DocsMd],
     [NoTool EXCEPT !.tool = "Task", !.sub = "compass-knowledge-discovery",
                    !.mention = TRUE]}

PreToolUse ==
    \E ti \in SessionTools : Run(Event("PreToolUse", FALSE, ti), 0)

PostToolUse ==
    Run(Event("PostToolUse", FALSE, [NoTool EXCEPT !.tool = "Read"]), 0)

SubagentStop == Run(Event("SubagentStop", FALSE, NoTool), 0)

SessionStop ==
    \E n \in {"Stop", "SessionEnd"} : Run(Event(n, FALSE, NoTool), 0)

UnknownEvent == Run(Event("Notification", FALSE, NoTool), 0)

\* cleanup_compass_status_if_stale() called on its own
CleanupOutcome(c, before) ==
    [s |-> c.s, res |-> NoResult, cleaned |-> c.r, pre |-> before]

StaleCleanup ==
    Finished(CleanupOutcome(CleanupIfStale(Files(0)), Files(0)),
             Event("cleanup_compass_status_if_stale", FALSE, NoTool), 0, "call")

\* Wall-clock time passes and no process runs.
Tick ==
    /\ now + TickSeconds <= MaxTime
    /\ now' = now + TickSeconds
    /\ last' = [NoLast EXCEPT !.idle = Min(IdleSoFar + TickSeconds, MaxTime)]
    /\ UNCHANGED <<status, sess, logTs, logN, mapIndex, docsM, tok, probe,
                   call, conc>>

\* Somebody (a tool that was let through, the user) writes a docs/*.md file.
TouchDocs ==
    /\ docsM # now
    /\ docsM' = now
    /\ last' = NoLast
    /\ UNCHANGED <<now, status, sess, logTs, logN, mapIndex, tok, probe,
                   call, conc>>

\* compass-session.json is damaged from outside: unparseable text, a JSON
\* array, or an object whose session_start is not a timestamp.
CorruptSession ==
    /\ sess.kind = "dict"
    /\ sess.start # BadTs
    /\ \E c \in {GarbageSession, ArraySession, [sess EXCEPT !.start = BadTs]} :
          sess' = c
    /\ last' = NoLast
    /\ UNCHANGED <<now, status, logTs, logN, mapIndex, docsM, tok, probe,
                   call, conc>>

Init ==
    /\ now = 0
    /\ status = FALSE
    /\ sess = NoSession
    /\ logTs = NoTs
    /\ logN = 0
    /\ mapIndex = FALSE
    /\ docsM = NoTs
    /\ tok = NoLedger
    /\ last = NoLast
    /\ probe = NoProbe
    /\ call = NoCall
    /\ conc = NoConc

Next ==
    \/ UserPromptSubmit
    \/ PreToolUse
    \/ PostToolUse
    \/ SubagentStop
    \/ SessionStop
    \/ UnknownEvent
    \/ StaleCleanup
    \/ Tick
    \/ TouchDocs
    \/ CorruptSession

Spec == Init /\ [][Next]_vars

\* ---------------------------------------------------------------- SpecTool
\* The tool-event policy on its own: any history of prompts, stops, agent
\* calls, damage to the session record and passing time arranges the files,
\* then one PreToolUse event of any shape is decided, through main() or by
\* handle_pre_tool_use called directly.
Arranged(e) ==
    /\ last.name = "-"
    /\ Leave(Main(Files(0), e).s)
    /\ last' = NoLast
    /\ UNCHANGED <<now, probe, call, conc>>

ArrangePrompt == Arranged(Event("UserPromptSubmit", TRUE, NoTool))

ArrangeStop == Arranged(Event("Stop", FALSE, NoTool))

ArrangeAgent ==
    Arranged(Event("PreToolUse", FALSE,
                   [NoTool EXCEPT !.tool = "Task", !.mention = TRUE,
                                  !.sub = "compass-knowledge-discovery"]))

ArrangeTick == last.name = "-" /\ Tick

ArrangeDamage == last.name = "-" /\ CorruptSession

ToolThroughMain ==
    /\ last.name = "-"
    /\ \E ti \in ToolInputs, d \in 0..MaxDepthIn :
          Run(Event("PreToolUse", FALSE, ti), d)

\* What main() reads from standard input: shape describes the first
\* MAX_INPUT_SIZE characters ("object": a JSON object of admissible nesting;
\* "invalid": not JSON; "nonobject": JSON that is no object; "deep": nesting
\* beyond the limit of secure_json_loads), over says that the input is longer
\* than MAX_INPUT_SIZE.
InputShapes == {"object", "invalid", "nonobject", "deep"}

\* An input handler that tidies up the session files before it exits
RejectedAndReset(s, shape) ==
    [s |-> [s EXCEPT !.status = FALSE, !.sess = NoSession, !.exit = 1],
     res |-> NoResult, cleaned |-> FALSE, pre |-> s]

\* main() on input that secure_json_loads refuses: the log lines of
\* secure_json_loads (none for the nesting depth) and of main, the diagnostic
\* on stderr, sys.exit(1)
Rejected(s, shape) ==
    [s |-> [Log(IF shape = "deep" THEN s ELSE Log(s, "security_exception"),
                "security_exception")
            EXCEPT !.exit = 1],
     res |-> NoResult, cleaned |-> FALSE, pre |-> s]

\* main() from sys.stdin.read(MAX_INPUT_SIZE) on, s being the state after
\* the length test: the first MAX_INPUT_SIZE characters are parsed, and
\* event e is what they hold when they are an object
MainOnText(s, shape, e) ==
    IF shape = "object" THEN Main(s, e) ELSE Rejected(s, shape)

\* main() on raw input
MainOnInput(s, shape, over, e) ==
    MainOnText(IF over THEN Log(s, "input_too_large") ELSE s, shape, e)

\* The events the raw inputs hold
InputEvents ==
    {Event("UserPromptSubmit", TRUE, NoTool),
     Event("PreToolUse", FALSE, [NoTool EXCEPT !.tool = "Read"]),
     Event("Stop", FALSE, NoTool)}

\* One run of main() on raw input
RawInput ==
    /\ last.name = "-"
    /\ \E shape \in InputShapes, over \in BOOLEAN, e \in InputEvents :
          /\ Leave(MainOnInput(Files(0), shape, over, e).s)
          /\ last' = [Observed(e, 0, "main", Files(0),
                               MainOnInput(Files(0), shape, over, e))
                      EXCEPT !.name = IF shape = "object" THEN e.name
                                      ELSE "unparsed",
                             !.inShape = shape, !.inOver = over]
    /\ UNCHANGED <<now, probe, call, conc>>

\* handle_pre_tool_use(input_data) without main() around it
DirectOutcome(h) ==
    [s |-> h.s, res |-> h.res, cleaned |-> FALSE, pre |-> h.s]

ToolDirect ==
    /\ last.name = "-"
    /\ \E ti \in ToolInputs, d \in 0..MaxDepthIn :
          Finished(DirectOutcome(HandlerCore(Files(d),
                                             Event("PreToolUse", FALSE, ti))),
                   Event("PreToolUse", FALSE, ti), d, "handle_pre_tool_use")

NextTool ==
    \/ ArrangePrompt
    \/ ArrangeStop
    \/ ArrangeAgent
    \/ ArrangeTick
    \/ ArrangeDamage
    \/ ToolThroughMain
    \/ ToolDirect
    \/ RawInput

SpecTool == Init /\ [][NextTool]_vars

\* ---------------------------------------------------------------- SpecPath
\* The path-safety functions on every path of at most MaxPathLen components.
PathComponents ==
    {".", "..", "docs", "proj", "proj2", "notes.md", "notes.txt", "test-plan.md"}

RECURSIVE PathsOfLen(_)
PathsOfLen(n) ==
    IF n = 0 THEN {<<>>}
    ELSE {Append(q, c) : q \in PathsOfLen(n - 1), c \in PathComponents}

Paths ==
    {[abs |-> a, parts |-> q] :
        a \in BOOLEAN, q \in UNION {PathsOfLen(n) : n \in 1..MaxPathLen}}

ProbeTools == FileCreatingTools \cup {"Read"}

InitPath ==
    /\ now = 0
    /\ status = FALSE
    /\ sess = NoSession
    /\ logTs = NoTs
    /\ logN = 0
    /\ mapIndex = FALSE
    /\ docsM = NoTs
    /\ tok = NoLedger
    /\ last = NoLast
    /\ call = NoCall
    /\ conc = NoConc
    /\ probe \in {[NoProbe EXCEPT !.phase = "input", !.tool = t, !.path = p,
                                   !.contentKw = k] :
                      t \in ProbeTools, p \in Paths, k \in BOOLEAN}

\* validate_path_safety and validate_file_operation_safety applied to the
\* path under test
ValidatePath ==
    /\ probe.phase = "input"
    /\ LET r == validate_file_operation_safety(probe.tool, probe.path,
                                                probe.contentKw)
       IN  probe' = [probe EXCEPT !.phase = "done",
                                  !.pathSafe = validate_path_safety(probe.path),
                                  !.safe = r.safe, !.reason = r.reason,
                                  !.suggested = r.suggested]
    /\ UNCHANGED <<now, status, sess, logTs, logN, mapIndex, docsM, tok, last,
                   call, conc>>

NextPath == ValidatePath

SpecPath == InitPath /\ [][NextPath]_vars

\* ------------------------------------------------- the functions on any files
\* SpecCalls: the signal files hold any content (absent, not JSON, JSON of the
\* wrong shape, fresh or old timestamps) and the session functions are called
\* on them directly, at most two in a row.
SignalStamps == {NoTs, BadTs, 0, MaxTime}

SessionFiles ==
    {NoSession, GarbageSession, ArraySession}
    \cup {[kind |-> "dict", start |-> a, last |-> b] :
             a \in SignalStamps, b \in SignalStamps}

LedgerFiles ==
    {NoLedger, [NoLedger EXCEPT !.exists = TRUE, !.shape = "garbage"],
     [NoLedger EXCEPT !.exists = TRUE, !.shape = "array"]}
    \cup {[exists |-> TRUE, shape |-> "object", lastUpdate |-> u,
            compassKey |-> k] : u \in {BadTs, 0, MaxTime}, k \in BOOLEAN}

InitCalls ==
    /\ now = MaxTime
    /\ status \in BOOLEAN
    /\ sess \in SessionFiles
    /\ logTs \in {NoTs, 0, MaxTime}
    /\ logN = 0
    /\ mapIndex = FALSE
    /\ docsM \in {NoTs, 0, MaxTime}
    /\ tok \in LedgerFiles
    /\ last = NoLast
    /\ probe = NoProbe
    /\ call = NoCall
    /\ conc = NoConc

\* The oracle's answer c as a plain truth value: an exception is no answer
Answers(c) == c.s.exit = 0 /\ c.r

\* Function fn was called and ended as o = [s, r]
Called(fn, o) ==
    /\ call.prev = "-"
    /\ Leave(o.s)
    /\ call' = [fn |-> fn, prev |-> call.fn, before |-> Files(0), ret |-> o.r,
                raised |-> o.s.exit # 0,
                activeAfter |-> Answers(ContextActive([o.s EXCEPT !.exit = 0]))]
    /\ UNCHANGED <<now, last, probe, conc>>

CallContextActive == Called("compass_context_active", ContextActive(Files(0)))

CallCheckSessionActive ==
    Called("check_compass_session_active", CheckSessionActive(Files(0)))

CallInjectCompassContext ==
    Called("inject_compass_context",
           [s |-> InjectCompassContext(Files(0)), r |-> TRUE])

CallCreateSessionTracking ==
    Called("create_compass_session_tracking",
           [s |-> CreateSessionTracking(Files(0)), r |-> TRUE])

CallCleanupIfStale ==
    Called("cleanup_compass_status_if_stale", CleanupIfStale(Files(0)))

NextCalls ==
    \/ CallContextActive
    \/ CallCheckSessionActive
    \/ CallInjectCompassContext
    \/ CallCreateSessionTracking
    \/ CallCleanupIfStale

SpecCalls == InitCalls /\ [][NextCalls]_vars

\* ------------------------------------------------------------ the token ledger
\* SpecLedger: compass-tokens.json with its totals.  Here tok also has the
\* fields size, numeric, total and byAgent:
\*   size     "small"; "nearcap": the file is within MAX_TOKEN_FILE_SIZE but
\*            json.dumps of its content is longer; "over": above
\*            MAX_TOKEN_FILE_SIZE; "huge": above the 2 MB limit of the reader
\*   numeric  int(total) succeeds (FALSE: total is a string such as "abc")
\*   total    the value of "total" when numeric
\*   byAgent  "by_agent": a function from agent names to counts
LedgerAgents == {"compass-captain", "general-purpose"}

NoAgents == [a \in {} |-> 0]

\* create_empty_token_data, written out
EmptyTokenData ==
    [exists |-> TRUE, shape |-> "object", lastUpdate |-> now,
     compassKey |-> FALSE, size |-> "small", numeric |-> TRUE, total |-> 0,
     byAgent |-> NoAgents]

AbsentLedger == [EmptyTokenData EXCEPT !.exists = FALSE, !.lastUpdate = NoTs]

\* What get_current_session_tokens returns when it cannot read the ledger
ZeroTokens == [total |-> 0, byAgent |-> NoAgents]

OverCap(t) == t.exists /\ t.size \in {"over", "huge"}

\* cleanup_token_file: an oversized file is replaced by the emergency record;
\* a file that is not JSON is removed; for a total that is not a number
\* min(total, 1000000) raises TypeError, which its except clause lets through
\* (raised), and the file stays.
CleanupTokenFile(t) ==
    IF OverCap(t) THEN [file |-> EmptyTokenData, raised |-> FALSE]
    ELSE IF t.shape = "garbage" THEN [file |-> AbsentLedger, raised |-> FALSE]
    ELSE IF t.shape = "array" \/ ~t.numeric THEN [file |-> t, raised |-> TRUE]
    ELSE [file |-> [t EXCEPT !.total = Min(t.total, 1000000),
                             !.lastUpdate = now, !.size = "small"],
          raised |-> FALSE]

\* A validation that keeps the per-agent counts and forgets the total
TotalForgotten(t) ==
    IF t.shape # "object" THEN [ok |-> TRUE, data |-> EmptyTokenData]
    ELSE [ok |-> t.numeric,
          data |-> IF t.numeric
                   THEN [EmptyTokenData EXCEPT !.byAgent = t.byAgent] ELSE t]

\* validate_and_clean_token_data on parsed JSON: ok is FALSE when int(total)
\* raises ValueError
ValidateAndClean(t) ==
    IF t.shape # "object" THEN [ok |-> TRUE, data |-> EmptyTokenData]
    ELSE IF ~t.numeric THEN [ok |-> FALSE, data |-> t]
    ELSE [ok |-> TRUE,
          data |-> [EmptyTokenData EXCEPT
                      !.total = IF t.total < 0 THEN 0 ELSE t.total,
                      !.byAgent =
                          IF Cardinality(DOMAIN t.byAgent) <= MAX_TOKEN_SESSIONS
                          THEN t.byAgent ELSE NoAgents]]

\* get_current_session_tokens once the file was parsed and cleaned (v)
TokensRead(t, v) ==
    IF v.ok
    THEN [file |-> t,
          ret |-> [total |-> v.data.total, byAgent |-> v.data.byAgent]]
    ELSE [file |-> CleanupTokenFile(t).file, ret |-> ZeroTokens]

\* get_current_session_tokens: the file it leaves and what it returns
GetCurrentSessionTokens(t) ==
    IF ~t.exists THEN [file |-> t, ret |-> ZeroTokens]
    ELSE IF t.size = "huge" \/ t.shape = "garbage"
    THEN [file |-> CleanupTokenFile(t).file, ret |-> ZeroTokens]
    ELSE TokensRead(t, ValidateAndClean(t))

\* load_json_memory_safe and the validation that follows it in
\* update_session_token_count: the data the new count is added to
LoadedTokens(t) ==
    IF ~t.exists \/ t.shape = "garbage" \/ t.size # "small"
    THEN [ok |-> TRUE, data |-> EmptyTokenData]
    ELSE ValidateAndClean(t)

AddTokens(b, agent, n) ==
    [a \in DOMAIN b \cup {agent} |->
        IF a = agent THEN (IF a \in DOMAIN b THEN b[a] ELSE 0) + n ELSE b[a]]

\* cleanup_old_agents_optimized: the cap entries of highest count are kept
\* (which of several equal counts goes first is the dict's order in the code,
\* a fixed choice here)
RECURSIVE EvictLowest(_, _)
EvictLowest(b, cap) ==
    IF Cardinality(DOMAIN b) <= cap THEN b
    ELSE EvictLowest(
             [x \in DOMAIN b \
                 {CHOOSE a \in DOMAIN b : \A y \in DOMAIN b : b[a] <= b[y]}
              |-> b[x]],
             cap)

\* update_session_token_count from the loaded data v: the file it writes; an
\* exception of the validation is logged (token_count_error) and nothing is
\* written.
CountAdded(t, v, agent, n) ==
    IF ~v.ok THEN t
    ELSE [v.data EXCEPT
            !.total = @ + n,
            !.byAgent = EvictLowest(AddTokens(@, agent, n), MAX_AGENT_TRACKING),
            !.lastUpdate = now,
            !.compassKey =
                \E a \in DOMAIN v.data.byAgent \cup {agent} :
                    a = "compass-captain"]

\* update_session_token_count(agent, n) after the size check (t)
CountAfterSizeCheck(t, agent, n) == CountAdded(t, LoadedTokens(t), agent, n)

\* update_session_token_count(agent, n): the file it leaves
UpdateTokenCount(t, agent, n) ==
    CountAfterSizeCheck(IF OverCap(t) THEN CleanupTokenFile(t).file ELSE t,
                        agent, n)

ByAgents ==
    UNION {[D -> 1..MaxTotal] : D \in SUBSET LedgerAgents}

\* k further agent names, "1" .. "k"
NumberedAgents(k) == {ToString(i) : i \in 1..k}

\* Ledgers written by earlier calls for many agents: by_agent at
\* MAX_TOKEN_SESSIONS keys and one above it, every count c
CrowdedLedgers ==
    {[EmptyTokenData EXCEPT !.total = MaxTotal, !.lastUpdate = 0,
                            !.byAgent = [a \in NumberedAgents(k) |-> c]] :
        k \in {MAX_TOKEN_SESSIONS, MAX_TOKEN_SESSIONS + 1}, c \in 1..MaxTotal}

FullLedgers ==
    {AbsentLedger,
     [EmptyTokenData EXCEPT !.shape = "garbage", !.lastUpdate = NoTs],
     [EmptyTokenData EXCEPT !.shape = "array", !.lastUpdate = NoTs]}
    \cup
    {[EmptyTokenData EXCEPT !.size = z, !.numeric = m,
                            !.total = IF m THEN c ELSE 0,
                            !.byAgent = b, !.lastUpdate = 0,
                            !.compassKey = "compass-captain" \in DOMAIN b] :
        z \in {"small", "nearcap", "over", "huge"}, m \in BOOLEAN,
        c \in (-1)..MaxTotal, b \in ByAgents}

\* phase: "start", then "read" (the total before), "updated", "done" (the
\* total after).  initial is the ledger the sequence started from.
NoReading ==
    [phase |-> "start", initial |-> AbsentLedger, first |-> ZeroTokens,
     agent |-> "-", n |-> 0, ret |-> ZeroTokens]

InitLedger ==
    /\ now = MaxTime
    /\ status = FALSE
    /\ sess = NoSession
    /\ logTs = NoTs
    /\ logN = 0
    /\ mapIndex = FALSE
    /\ docsM = NoTs
    /\ tok \in FullLedgers \cup CrowdedLedgers
    /\ last = NoLast
    /\ probe = NoProbe
    /\ call = NoReading
    /\ conc = NoConc

\* The ledger call's frame: only the ledger file and the record of the call
\* change (log lines aside)
LedgerFrame ==
    UNCHANGED <<now, status, sess, logTs, logN, mapIndex, docsM, last, probe,
                conc>>

\* get_current_session_tokens() before the update
ReadTotalBefore ==
    /\ call.phase = "start"
    /\ tok' = GetCurrentSessionTokens(tok).file
    /\ call' = [call EXCEPT !.phase = "read", !.initial = tok,
                            !.first = GetCurrentSessionTokens(tok).ret]
    /\ LedgerFrame

\* update_session_token_count(agent, n)
RecordTokens ==
    /\ call.phase = "read"
    /\ \E agent \in LedgerAgents, n \in 1..MaxTokens :
          /\ tok' = UpdateTokenCount(tok, agent, n)
          /\ call' = [call EXCEPT !.phase = "updated", !.agent = agent,
                                  !.n = n]
    /\ LedgerFrame

\* get_current_session_tokens() after the update
ReadTotalAfter ==
    /\ call.phase = "updated"
    /\ tok' = GetCurrentSessionTokens(tok).file
    /\ call' = [call EXCEPT !.phase = "done",
                            !.ret = GetCurrentSessionTokens(tok).ret]
    /\ LedgerFrame

NextLedger ==
    \/ ReadTotalBefore
    \/ RecordTokens
    \/ ReadTotalAfter

SpecLedger == InitLedger /\ [][NextLedger]_vars

\* ------------------------------------------------- concurrent hook processes
\* SpecLock: several hook processes at once, while the marker exists and the
\* session record is stale.  Each runs one of
\*   track    the token tracking of a PreToolUse: update_session_token_count,
\*            then update_compass_status_with_tokens
\*   phase    update_compass_phase
\*   create   create_compass_status_file_with_tokens
\*   cleanup  cleanup_compass_status_if_stale
\* FileLock(path) is an exclusive lock on the file that path names at the time
\* of the call, created if missing; it blocks while another process holds a
\* lock on that same file.
Procs == 1..MaxProcs

InitLock ==
    /\ now = MaxTime
    /\ status = TRUE
    /\ sess = [kind |-> "dict", start |-> 0, last |-> 0]
    /\ logTs = NoTs
    /\ logN = 0
    /\ mapIndex = FALSE
    /\ docsM = NoTs
    /\ tok = [EmptyTokenData EXCEPT !.lastUpdate = 0]
    /\ last = NoLast
    /\ probe = NoProbe
    /\ call = NoReading
    /\ conc = [NoConc EXCEPT !.pc = [p \in Procs |-> "idle"],
                             !.loaded = [p \in Procs |->
                                            [ok |-> FALSE, data |-> AbsentLedger]],
                             !.holds = [p \in Procs |-> 0]]

\* What a step of SpecLock leaves alone besides the files it names
LockFrame == UNCHANGED <<now, logTs, logN, mapIndex, docsM, last, probe, call>>

\* A hook process starts on one of the four functions
Begin(p) ==
    /\ conc.pc[p] = "idle"
    /\ \E k \in {"track", "phase", "create", "cleanup"} :
          conc' = [conc EXCEPT !.pc[p] = k]
    /\ UNCHANGED <<status, sess, tok>>
    /\ LockFrame

\* update_session_token_count: with FileLock(f"{token_file}.lock"), the lock
\* file is missing and is created
LockNewFile(p) ==
    /\ conc.pc[p] = "track"
    /\ conc.lockFile = 0
    /\ conc' = [conc EXCEPT !.pc[p] = "locked", !.inodes = @ + 1,
                            !.lockFile = conc.inodes + 1,
                            !.holds[p] = conc.inodes + 1]
    /\ UNCHANGED <<status, sess, tok>>
    /\ LockFrame

\* update_session_token_count: with FileLock(f"{token_file}.lock"), the lock
\* file exists and no process holds a lock on it
LockExistingFile(p) ==
    /\ conc.pc[p] = "track"
    /\ conc.lockFile # 0
    /\ \A q \in Procs : conc.holds[q] # conc.lockFile
    /\ conc' = [conc EXCEPT !.pc[p] = "locked", !.holds[p] = conc.lockFile]
    /\ UNCHANGED <<status, sess, tok>>
    /\ LockFrame

\* update_session_token_count: load_json_memory_safe and validation
LoadLedger(p) ==
    /\ conc.pc[p] = "locked"
    /\ conc' = [conc EXCEPT !.pc[p] = "loaded", !.loaded[p] = LoadedTokens(tok)]
    /\ UNCHANGED <<status, sess, tok>>
    /\ LockFrame

\* update_session_token_count: the count is added to the data loaded and the
\* file is written
StoreLedger(p) ==
    /\ conc.pc[p] = "loaded"
    /\ tok' = CountAdded(tok, conc.loaded[p], "compass-captain", 1)
    /\ conc' = [conc EXCEPT !.pc[p] = "stored", !.recorded = @ + 1]
    /\ UNCHANGED <<status, sess>>
    /\ LockFrame

\* update_session_token_count: the with block ends
Unlock(p) ==
    /\ conc.pc[p] = "stored"
    /\ conc' = [conc EXCEPT !.pc[p] = "unlocked", !.holds[p] = 0]
    /\ UNCHANGED <<status, sess, tok>>
    /\ LockFrame

\* update_compass_status_with_tokens: returns if the marker is missing, else
\* reads the status file
StatusRead(p) ==
    /\ conc.pc[p] = "unlocked"
    /\ conc' = [conc EXCEPT !.pc[p] = IF status THEN "statusRead" ELSE "done"]
    /\ UNCHANGED <<status, sess, tok>>
    /\ LockFrame

\* update_compass_status_with_tokens: the status file is written back with
\* the token section (an unlinked marker is created again by open(..., "w"))
StatusWrite(p) ==
    /\ conc.pc[p] = "statusRead"
    /\ status' = TRUE
    /\ conc' = [conc EXCEPT !.pc[p] = "done"]
    /\ UNCHANGED <<sess, tok>>
    /\ LockFrame

\* update_compass_phase: returns if the marker is missing, else reads the
\* status file
PhaseRead(p) ==
    /\ conc.pc[p] = "phase"
    /\ conc' = [conc EXCEPT !.pc[p] = IF status THEN "phaseRead" ELSE "done"]
    /\ UNCHANGED <<status, sess, tok>>
    /\ LockFrame

\* update_compass_phase: the status file is written back
PhaseWrite(p) ==
    /\ conc.pc[p] = "phaseRead"
    /\ status' = TRUE
    /\ conc' = [conc EXCEPT !.pc[p] = "done"]
    /\ UNCHANGED <<sess, tok>>
    /\ LockFrame

\* create_compass_status_file_with_tokens: with FileLock(lock_file)
CreateLock(p) ==
    /\ conc.pc[p] = "create"
    /\ conc.statusHolder = 0
    /\ conc' = [conc EXCEPT !.pc[p] = "creating", !.statusHolder = p]
    /\ UNCHANGED <<status, sess, tok>>
    /\ LockFrame

\* create_compass_status_file_with_tokens: the marker is written and the with
\* block ends
CreateWrite(p) ==
    /\ conc.pc[p] = "creating"
    /\ status' = TRUE
    /\ conc' = [conc EXCEPT !.pc[p] = "done", !.statusHolder = 0]
    /\ UNCHANGED <<sess, tok>>
    /\ LockFrame

\* cleanup_compass_status_if_stale, in one step: with the marker present and
\* the session not active it unlinks the marker, the session record and both
\* lock files, whoever holds a lock on them
CleanupRuns(p) ==
    /\ conc.pc[p] = "cleanup"
    /\ status' = CleanupIfStale(Files(0)).s.status
    /\ sess' = CleanupIfStale(Files(0)).s.sess
    /\ conc' = [conc EXCEPT !.pc[p] = "done",
                            !.lockFile = IF CleanupIfStale(Files(0)).r
                                         THEN 0 ELSE @]
    /\ UNCHANGED tok
    /\ LockFrame

NextLock ==
    \E p \in Procs :
        \/ Begin(p)
        \/ LockNewFile(p)
        \/ LockExistingFile(p)
        \/ LoadLedger(p)
        \/ StoreLedger(p)
        \/ Unlock(p)
        \/ StatusRead(p)
        \/ StatusWrite(p)
        \/ PhaseRead(p)
        \/ PhaseWrite(p)
        \/ CreateLock(p)
        \/ CreateWrite(p)
        \/ CleanupRuns(p)

SpecLock == InitLock /\ [][NextLock]_vars

\* --------------------------------------------------------------- the logger
\* SpecLog: compass-handler.log line by line.  Here call holds the log files
\* and the last call of log_handler_activity:
\*   live, big    the lines of compass-handler.log (<<>>: no file) and whether
\*                its size is above MAX_LOG_SIZE
\*   old, hasOld  compass-handler.log.old
\*   raised       the call ended in an exception
\*   prev         live, big, old and hasOld as the call found them
\*   arg, env, dirOk   the inputs of the call (below); calls counts the calls
\* arg: "plain" (strings that pass the schema), "badAction" (action is no
\* string or too long, or details too long), "unserializable" (details that
\* json.dumps refuses), "surrogate" (text utf-8 cannot encode).
\* env: "ok"; "unlinkFails" (the old backup cannot be removed); "renameFails"
\* (the log cannot be renamed); "readOnly" (no file can be opened for
\* writing).  dirOk: get_logs_dir() can create .claude/logs.
LogArgs == {"plain", "badAction", "unserializable", "surrogate"}

LogEnvs == {"ok", "unlinkFails", "renameFails", "readOnly"}

\* A rotation that starts the log afresh and keeps no backup
RotateWithoutBackup(w, env) ==
    IF env = "readOnly" THEN w
    ELSE [w EXCEPT !.live = <<"log_rotated">>, !.big = FALSE]

\* rotate_log_file: the backup is replaced by the log and the log restarts
\* with the rotation marker; when that fails the log is truncated; when that
\* fails too nothing changes
RotateLogFile(w, env) ==
    CASE env = "ok" ->
            [w EXCEPT !.old = w.live, !.hasOld = TRUE,
                      !.live = <<"log_rotated">>, !.big = FALSE]
      [] env = "unlinkFails" ->
            [w EXCEPT !.live = <<"log_truncated">>, !.big = FALSE]
      [] env = "renameFails" ->
            [w EXCEPT !.old = <<>>, !.hasOld = FALSE,
                      !.live = <<"log_truncated">>, !.big = FALSE]
      [] OTHER -> w

\* log_handler_activity: one line appended, or dropped when the file cannot
\* be opened
AppendLine(w, env, line) ==
    IF env = "readOnly" THEN w ELSE [w EXCEPT !.live = Append(@, line)]

\* log_handler_activity: the entry that stands for the arguments
LogEntry(arg) ==
    CASE arg = "badAction" -> "validation_failed"
      [] arg = "unserializable" -> "serialization_failed"
      [] OTHER -> "entry"

\* log_handler_activity after the rotation test: secure_json_dumps (which
\* logs security_exception itself before it raises ValueError) and the write,
\* whose UnicodeEncodeError no except clause catches
EntryWritten(w, arg, env) ==
    CASE arg = "unserializable" ->
            AppendLine(AppendLine(w, env, "security_exception"), env,
                       LogEntry(arg))
      [] arg = "surrogate" /\ env # "readOnly" -> [w EXCEPT !.raised = TRUE]
      [] OTHER -> AppendLine(w, env, LogEntry(arg))

\* log_handler_activity(action, details): get_logs_dir() is called outside
\* the try and raises when the directory cannot be created
LogHandlerActivity(w, arg, env, dirOk) ==
    IF ~dirOk THEN [w EXCEPT !.raised = TRUE]
    ELSE EntryWritten(IF w.big THEN RotateLogFile(w, env) ELSE w, arg, env)

NoLogFiles ==
    [live |-> <<>>, big |-> FALSE, old |-> <<>>, hasOld |-> FALSE,
     raised |-> FALSE]

LogWorlds ==
    {[NoLogFiles EXCEPT !.live = l, !.big = b /\ l # <<>>, !.old = o,
                        !.hasOld = o # <<>>] :
        l \in {<<>>, <<"a">>, <<"a", "b">>}, b \in BOOLEAN,
        o \in {<<>>, <<"z">>}}

InitLog ==
    /\ now = 0
    /\ status = FALSE
    /\ sess = NoSession
    /\ logTs = NoTs
    /\ logN = 0
    /\ mapIndex = FALSE
    /\ docsM = NoTs
    /\ tok = NoLedger
    /\ last = NoLast
    /\ probe = NoProbe
    /\ conc = NoConc
    /\ \E w \in LogWorlds :
          call = [live |-> w.live, big |-> w.big, old |-> w.old,
                  hasOld |-> w.hasOld, raised |-> FALSE, prev |-> w,
                  arg |-> "-", env |-> "-", dirOk |-> TRUE, calls |-> 0]

\* The log files of call as a record
LogFiles ==
    [live |-> call.live, big |-> call.big, old |-> call.old,
     hasOld |-> call.hasOld, raised |-> FALSE]

\* The call ended as w; a log that was not restarted may have grown beyond
\* MAX_LOG_SIZE
LogCalled(w, arg, env, dirOk, grows) ==
    call' = [live |-> w.live,
             big |-> w.big \/ (grows /\ ~call.big /\ w.live # call.live),
             old |-> w.old, hasOld |-> w.hasOld, raised |-> w.raised,
             prev |-> LogFiles, arg |-> arg, env |-> env, dirOk |-> dirOk,
             calls |-> call.calls + 1]

\* One call of log_handler_activity
LogCall ==
    /\ call.calls < MaxLogCalls
    /\ \E arg \in LogArgs, env \in LogEnvs, dirOk \in BOOLEAN,
          grows \in BOOLEAN :
          LogCalled(LogHandlerActivity(LogFiles, arg, env, dirOk),
                    arg, env, dirOk, grows)
    /\ UNCHANGED <<now, status, sess, logTs, logN, mapIndex, docsM, tok, last,
                   probe, conc>>

NextLog == LogCall

SpecLog == InitLog /\ [][NextLog]_vars

\* ---------------------------------------------------------- safe-cleanup.py
\* SpecClean: one run of safe-cleanup.py main() without --rollback.  Here
\* call holds the run:
\*   execute, dryRun   the --execute flag and SafeCleanup.dry_run
\*   todo              test_files still to visit, in scan order
\*   pc                "loop" (top of the for loop), "unlink" (backup_file
\*                     returned True for Head(todo)), "done" (main exited)
\*   present           the files in the scanned directory
\*   backed            the files copied under backup_dir
\*   skipped           the files whose backup failed
\*   cleaned, errors, success, exit   stats and results
CleanFiles == 1..MaxCleanFiles

\* The test files of a set in scan order
RECURSIVE ScanOrder(_, _)
ScanOrder(S, i) ==
    IF i > MaxCleanFiles THEN <<>>
    ELSE IF i \in S THEN <<i>> \o ScanOrder(S, i + 1)
    ELSE ScanOrder(S, i + 1)

\* A backup that reports success without copying anything
BackupAssumed(c, f, ok) ==
    IF ok THEN [c EXCEPT !.pc = "unlink"]
    ELSE [c EXCEPT !.skipped = @ \cup {f}, !.todo = Tail(@)]

\* backup_file and the test on its result in cleanup_files: the copy is made
\* and the file goes on to unlink, or the file is skipped
BackupFile(c, f, ok) ==
    IF ok THEN [c EXCEPT !.backed = @ \cup {f}, !.pc = "unlink"]
    ELSE [c EXCEPT !.skipped = @ \cup {f}, !.todo = Tail(@)]

\* cleanup_files: file_path.unlink() and the except clause around it
UnlinkFile(c, f, ok) ==
    IF ok THEN [c EXCEPT !.present = @ \ {f}, !.cleaned = @ + 1,
                         !.todo = Tail(@), !.pc = "loop"]
    ELSE [c EXCEPT !.errors = @ + 1, !.success = FALSE,
                   !.todo = Tail(@), !.pc = "loop"]

NoCleanup ==
    [execute |-> FALSE, dryRun |-> TRUE, todo |-> <<>>, pc |-> "loop",
     present |-> CleanFiles, backed |-> {}, skipped |-> {}, cleaned |-> 0,
     errors |-> 0, success |-> TRUE, exit |-> -1]

\* main: dry_run = not args.execute; scan_directory has found the test files
InitClean ==
    /\ now = 0
    /\ status = FALSE
    /\ sess = NoSession
    /\ logTs = NoTs
    /\ logN = 0
    /\ mapIndex = FALSE
    /\ docsM = NoTs
    /\ tok = NoLedger
    /\ last = NoLast
    /\ probe = NoProbe
    /\ conc = NoConc
    /\ \E x \in BOOLEAN, S \in SUBSET CleanFiles :
          call = [NoCleanup EXCEPT !.execute = x, !.dryRun = ~x,
                                   !.todo = ScanOrder(S, 1)]

CleanFrame ==
    UNCHANGED <<now, status, sess, logTs, logN, mapIndex, docsM, tok, last,
                probe, conc>>

\* cleanup_files, one iteration in dry-run mode: the file is only reported
WouldRemove ==
    /\ call.pc = "loop" /\ call.todo # <<>> /\ call.dryRun
    /\ call' = [call EXCEPT !.todo = Tail(@)]
    /\ CleanFrame

\* cleanup_files, one iteration with --execute, up to the backup
BackupStep ==
    /\ call.pc = "loop" /\ call.todo # <<>> /\ ~call.dryRun
    /\ \E ok \in BOOLEAN : call' = BackupFile(call, Head(call.todo), ok)
    /\ CleanFrame

\* cleanup_files, the rest of the iteration after a backup that succeeded
UnlinkStep ==
    /\ call.pc = "unlink"
    /\ \E ok \in BOOLEAN : call' = UnlinkFile(call, Head(call.todo), ok)
    /\ CleanFrame

\* cleanup_files returns and main exits with 0 or 1
CleanupReturns ==
    /\ call.pc = "loop" /\ call.todo = <<>>
    /\ call' = [call EXCEPT !.pc = "done",
                             !.exit = IF call.success THEN 0 ELSE 1]
    /\ CleanFrame

NextClean ==
    \/ WouldRemove
    \/ BackupStep
    \/ UnlinkStep
    \/ CleanupReturns

SpecClean == InitClean /\ [][NextClean]_vars

\* ================================================================== claims
\* A path resolved against the project root: "." dropped, ".." removes the
\* component before it.
RECURSIVE Normalize(_, _)
Normalize(done, rest) ==
    IF rest = <<>> THEN done
    ELSE LET c == Head(rest) IN
         IF c = "." THEN Normalize(done, Tail(rest))
         ELSE IF c = ".."
         THEN Normalize(IF done = <<>> THEN <<>>
                        ELSE SubSeq(done, 1, Len(done) - 1), Tail(rest))
         ELSE Normalize(Append(done, c), Tail(rest))

Resolved(p) == Normalize(IF p.abs THEN <<>> ELSE ProjectRoot, p.parts)

\* The resolved path names an entry directly in the project root.
DirectlyInRoot(p) ==
    LET r == Resolved(p) IN
    IsPrefix(ProjectRoot, r) /\ Len(r) = Len(ProjectRoot) + 1

\* The resolved path ends in a file name (not a directory name).
FileNames == {"README.md", "notes.md", "notes.txt", "test-plan.md"}
NamesFile(p) ==
    LET r == Resolved(p) IN r # <<>> /\ r[Len(r)] \in FileNames

IsToolCall == last.name = "PreToolUse"
IsNestedValidator == last.tool = "Task" /\ last.sub = "compass-upstream-validator"
TargetsRoot == last.path # NoPath /\ DirectlyInRoot(last.path)

\* C1: through main(), a PreToolUse event that arrives while a session is
\* active, whose target is not a project-root file, that is not a nested
\* validator call, carries no double_check and has validation depth below 3,
\* receives permissionDecision "allow".
C1_ActiveSessionAllows ==
    (/\ IsToolCall /\ last.via = "main" /\ last.active
     /\ ~TargetsRoot /\ ~IsNestedValidator
     /\ ~last.dc /\ last.depthIn < MAX_VALIDATION_DEPTH)
    => (last.kind = "decision" /\ last.decision = "allow")

\* C2: PreToolUse Write of "README.md" through main() with no session active
\* is denied with a reason that names the redirected path under the
\* documentation directory.
C2_RootWriteRedirectedFirst ==
    (/\ IsToolCall /\ last.via = "main" /\ ~last.active
     /\ last.tool = "Write" /\ last.path = RootMd)
    => (/\ last.kind = "decision" /\ last.decision = "deny"
        /\ last.reason = "root_violation"
        /\ last.suggested = <<".serena", "memories", "README.md">>)

\* C3: for every file-creating tool and every target directly in the project
\* root, whatever the extension, validate_file_operation_safety reports
\* unsafe and suggests a redirected path.
C3_NoRootWriteSafe ==
    (/\ probe.phase = "done" /\ probe.tool \in FileCreatingTools
     /\ NamesFile(probe.path) /\ DirectlyInRoot(probe.path))
    => (~probe.safe /\ probe.suggested # <<>>)

\* C4: validate_path_safety(p) is False exactly when p, resolved against the
\* project root, names a file directly in the project root.
C4_UnsafeIffResolvesIntoRoot ==
    (probe.phase = "done" /\ NamesFile(probe.path))
    => (probe.pathSafe <=> ~DirectlyInRoot(probe.path))

\* C5: after a session was marked active and more than the inactivity
\* timeout passed without any event or write, a call of
\* cleanup_compass_status_if_stale() leaves no marker and no
\* compass-session.json, and compass_context_active() is false.
C5_StaleSessionFullyCleaned ==
    (/\ last.name = "cleanup_compass_status_if_stale"
     /\ last.hadMarker /\ last.idle > SESSION_TIMEOUT)
    => (/\ ~status /\ sess.kind = "absent"
        /\ ~ContextActive(Files(0)).r)

\* C6: cleanup_compass_status_if_stale() deletes the marker only in states
\* where the log tail, the token ledger and the docs mtimes, like the session
\* record, report no recent activity.
C6_CleanupOnlyWhenAllSignalsInactive ==
    last.cleaned => ~last.liveAtCleanup

\* C7: a UserPromptSubmit with a non-empty prompt through main(), arriving
\* while compass_context_active() is false, returns the coordination context,
\* and when main() has finished the marker and compass-session.json exist.
C7_PromptMarksSessionActive ==
    (/\ last.name = "UserPromptSubmit" /\ last.prompt /\ ~last.active)
    => (/\ last.kind = "context" /\ last.ctx
        /\ status /\ sess.kind # "absent")

C9_EveryToolResultIsDecision ==
    IsToolCall
    => (/\ last.kind = "decision" /\ last.decision \in {"allow", "deny"}
        /\ last.reason # "-" /\ last.ctx)

\* C10: a PreToolUse event at validation depth 3 or more, or a Task call of
\* compass-upstream-validator, is allowed: not denied, no upstream
\* validation triggered, the depth counter never raised.
C10_RecursionGuardAllows ==
    (/\ IsToolCall /\ last.tool # "" /\ ~TargetsRoot
     /\ (last.depthIn >= MAX_VALIDATION_DEPTH \/ IsNestedValidator))
    => (/\ last.kind = "decision" /\ last.decision = "allow"
        /\ ~last.validated /\ last.peak = last.depthIn
        /\ last.depthOut = last.depthIn)

\* C11: a PreToolUse event with double_check at depth d < 3 runs
\* trigger_upstream_validation with COMPASS_VALIDATION_DEPTH = d + 1 and
\* leaves the counter at d; no event leaves the counter above its value
\* before the event, and without the delegated validation it is never raised.
C11_DepthRestored ==
    last.name # "-"
    => (/\ last.depthOut = last.depthIn
        /\ last.validated
              => (/\ IsToolCall /\ last.dc
                  /\ last.depthIn < MAX_VALIDATION_DEPTH
                  /\ last.peak = last.depthIn + 1)
        /\ ~last.validated => last.peak = last.depthIn)

\* a double_check call at depth 2 whose validation ran at depth 3
C11_ValidatedAtDepthTwo ==
    /\ IsToolCall /\ last.dc /\ last.validated
    /\ last.depthIn = MAX_VALIDATION_DEPTH - 1
    /\ last.peak = MAX_VALIDATION_DEPTH
    /\ last.depthOut = last.depthIn

\* C12: no PreToolUse event ends main() with exit code 1 and no decision
\* because tool_input is a string or an array: the exception is caught in the
\* policy engine and a permission decision is printed.
C12_MalformedInputDecided ==
    (IsToolCall /\ last.via = "main" /\ ~last.obj)
    => ~(last.exit = 1 /\ last.kind # "decision")

\* C13: compass_context_active() never raises, whatever compass-session.json,
\* compass-handler.log and compass-tokens.json hold (missing, unparseable,
\* JSON of the wrong shape): a signal it cannot read counts as absent.
C13_OracleNeverRaises ==
    call.fn = "compass_context_active" => ~call.raised

\* C14: in a project directory where the handler never ran (no marker, no
\* session record, no log, no ledger, no docs file) compass_context_active()
\* returns false.
C14_FreshDirectoryInactive ==
    (call.fn = "compass_context_active" /\ call.before = FreshFiles)
    => (~call.raised /\ ~call.ret)

C14_OracleOnFreshDirectory ==
    /\ call.fn = "compass_context_active" /\ call.prev = "-"
    /\ call.before = FreshFiles
    /\ ~call.ret
    /\ Files(0) = FreshFiles

\* C15: whatever the signal files held before, compass_context_active()
\* returns true on the files inject_compass_context() leaves.
C15_ActiveAfterInject ==
    call.fn = "inject_compass_context"
    => (~call.raised /\ status /\ call.activeAfter)

C15_InjectOnDamagedFiles ==
    /\ call.fn = "inject_compass_context" /\ call.prev = "-"
    /\ ~call.before.status
    /\ call.before.sess = ArraySession
    /\ call.before.tok.exists /\ call.before.tok.shape = "array"
    /\ call.activeAfter

\* C16: create_compass_session_tracking() never raises, always sets
\* last_activity to now, keeps session_start when the file held a JSON object
\* with that field, and replaces a file that is unparseable or not an object
\* by a fresh record whose session_start is now.
C16_SessionStartPreserved ==
    call.fn = "create_compass_session_tracking"
    => (/\ ~call.raised
        /\ sess.kind = "dict" /\ sess.last = now
        /\ (call.before.sess.kind = "dict" /\ call.before.sess.start # NoTs)
              => sess.start = call.before.sess.start
        /\ call.before.sess.kind \in {"garbage", "array"}
              => sess.start = now)

C16_OldStartKept ==
    /\ call.fn = "create_compass_session_tracking"
    /\ call.before.sess.kind = "dict"
    /\ call.before.sess.start = 0 /\ call.before.sess.last = 0
    /\ sess = [kind |-> "dict", start |-> 0, last |-> now]
    /\ now > 0

\* C17: check_compass_session_active() returns true whenever session_start
\* or last_activity of the session record is within the threshold of now, so
\* a session with a fresh last_activity is active even when session_start is
\* older than the threshold.
C17_EitherTimestampSuffices ==
    (/\ call.fn = "check_compass_session_active"
     /\ call.before.sess.kind = "dict"
     /\ TsWithin(call.before.sess.start) \/ TsWithin(call.before.sess.last))
    => call.ret

\* C18: cleanup_compass_status_if_stale() never raises, also when the marker
\* or the session record is missing, and a second call right after a first
\* one returns False and leaves every file as the first call left it.
C18_CleanupIdempotent ==
    call.fn = "cleanup_compass_status_if_stale"
    => (/\ ~call.raised
        /\ call.prev = "cleanup_compass_status_if_stale"
              => (~call.ret /\ Files(0) = call.before))

C18_SecondCleanupAfterRemoval ==
    /\ call.fn = "cleanup_compass_status_if_stale"
    /\ call.prev = "cleanup_compass_status_if_stale"
    /\ ~call.before.status /\ call.before.sess = NoSession
    /\ ~call.ret
    /\ ~status /\ sess = NoSession

\* C19: when main() has processed a Stop or SessionEnd event, whatever events
\* preceded it, the marker does not exist and compass_context_active()
\* returns false for the next hook event.
C19_NoStateAfterStop ==
    last.name \in {"Stop", "SessionEnd"}
    => (~status /\ ~ContextActive(Files(0)).r)

\* C20: whatever the ledger file holds, the total that
\* get_current_session_tokens() returns after update_session_token_count(agent,
\* n) is the total it returned before plus n; only when the file was over its
\* size cap is the ledger afterwards the empty ledger plus this entry
\* (total = n, by_agent = {agent: n}).
C20_TotalGrowsByCount ==
    call.phase = "done"
    => IF OverCap(call.initial)
       THEN /\ call.ret.total = call.n
            /\ call.ret.byAgent = [a \in {call.agent} |-> call.n]
       ELSE call.ret.total = call.first.total + call.n

\* The ledger holds a total that can be compared: an object with a numeric
\* total
HasTotal(t) == t.exists /\ t.shape = "object" /\ t.numeric

\* The resets the code performs on the ledger: emergency cleanup of a file
\* over the size cap, and the token_file_reset of a file that
\* load_json_memory_safe refuses
ExplicitReset(t) == OverCap(t) \/ t.size # "small"

\* C21: from one persisted ledger to the next the total never decreases,
\* except where the ledger is reset or cleaned up (size-cap emergency cleanup,
\* reset of a file that cannot be loaded, cleanup_token_file, deletion).
C21_TotalNeverDecreases ==
    [][(HasTotal(tok) /\ ~ExplicitReset(tok))
          => (HasTotal(tok') /\ tok'.total >= tok.total)]_vars

C21_TotalGrewOnRecord ==
    /\ call.phase = "updated"
    /\ HasTotal(call.initial) /\ ~ExplicitReset(call.initial)
    /\ call.initial.total > 0
    /\ tok.total = call.initial.total + call.n

\* The keys of map old that map new no longer has
Evicted(old, new) == DOMAIN old \ DOMAIN new

\* C22: recording a count drops entries of by_agent only to keep the map at
\* its key-count cap and only the lowest-valued ones: every entry kept is at
\* least as large as every entry dropped, the map is left at its cap, and it
\* is never emptied wholesale.
C22_OnlyLowestEvicted ==
    (/\ call.phase = "updated"
     /\ HasTotal(call.initial) /\ ~ExplicitReset(call.initial))
    => (/\ \A k \in DOMAIN tok.byAgent :
              \A e \in Evicted(call.initial.byAgent, tok.byAgent) :
                  tok.byAgent[k] >= call.initial.byAgent[e]
        /\ Evicted(call.initial.byAgent, tok.byAgent) # {}
              => /\ Cardinality(DOMAIN tok.byAgent) = MAX_AGENT_TRACKING
                 /\ Evicted(call.initial.byAgent, tok.byAgent)
                       # DOMAIN call.initial.byAgent)

\* C23: a hook process that has read a shared state file and has not yet
\* written it back holds that file's lock: compass-tokens.json.lock for the
\* ledger, compass-status.lock for the status file (token-section refresh,
\* phase update).
C23_ReadModifyWriteUnderLock ==
    \A p \in Procs :
        /\ conc.pc[p] = "loaded" => conc.holds[p] # 0
        /\ conc.pc[p] \in {"statusRead", "phaseRead"} => conc.statusHolder = p

\* C29: with a working FileLock, in every interleaving of concurrent
\* update_session_token_count calls, also when cleanup_compass_status_if_stale
\* unlinks compass-tokens.json.lock meanwhile, at most one process is between
\* its read and its write of the ledger, and when all have finished the total
\* is the initial total plus every count recorded.
C29_NoLostTokenUpdate ==
    /\ Cardinality({p \in Procs : conc.pc[p] = "loaded"}) <= 1
    /\ (\A p \in Procs : conc.pc[p] = "done") => tok.total = conc.recorded

\* C24: when standard input is not a JSON object (invalid JSON, a JSON value
\* that is no object, nesting beyond the limit), main() prints no decision,
\* exits with code 1 and leaves the marker, the session record and the ledger
\* as they were.
C24_UnparseableInputRejected ==
    (last.via = "main" /\ last.inShape # "object")
    => (/\ last.name = "unparsed"
        /\ last.kind = "none" /\ last.exit = 1
        /\ last.kept)

C24_RejectedWithSessionActive ==
    /\ last.name = "unparsed" /\ last.inShape = "nonobject"
    /\ last.exit = 1 /\ last.kind = "none"
    /\ status /\ sess.kind = "dict" /\ tok.exists
    /\ last.kept

\* C25: input longer than MAX_INPUT_SIZE is rejected whatever its first
\* MAX_INPUT_SIZE characters hold: main() exits non-zero and dispatches the
\* event to no handler.
C25_OversizedInputRejected ==
    (last.via = "main" /\ last.inOver)
    => (last.name = "unparsed" /\ last.exit # 0)

\* C26: log_handler_activity never raises to its caller, whatever its
\* arguments and whatever I/O fails (the logs directory cannot be created,
\* the log cannot be written, rotation fails): the entry is dropped or
\* replaced by a sanitized one.
C26_LoggerNeverRaises ==
    call.calls > 0 => ~call.raised

\* s is a prefix of t
IsLogPrefix(s, t) ==
    /\ Len(s) <= Len(t)
    /\ \A i \in 1..Len(s) : s[i] = t[i]

C28_RemovedOnlyAfterBackup ==
    /\ \A f \in CleanFiles \ call.present : ~call.dryRun /\ f \in call.backed
    /\ call.dryRun => (call.present = CleanFiles /\ call.backed = {})
    /\ call.dryRun = ~call.execute
    /\ call.skipped \subseteq call.present

C28_RemovedAndSkipped ==
    /\ call.pc = "done" /\ call.execute
    /\ call.present # CleanFiles
    /\ call.skipped # {}
    /\ call.cleaned > 0

\* C30: the coordinator can be reached: once a response has told the caller
\* to use Task with subagent_type compass-captain and the session it opened is
\* active, a PreToolUse event for Task with subagent_type compass-captain at
\* validation depth 0 receives permissionDecision "allow" through main().
C30_CaptainReachable ==
    (/\ IsToolCall /\ last.via = "main" /\ last.obj
     /\ last.tool = "Task" /\ last.sub = "compass-captain"
     /\ last.depthIn = 0 /\ last.active /\ last.hadMarker)
    => (last.kind = "decision" /\ last.decision = "allow")

====
